---- MODULE Spec2Model ----
(***************************************************************************)
(* Model of data-formats-benchmark: the trimmed-mean aggregator            *)
(* (media_acotada), the measurement loop (medir_tiempos), the benchmark    *)
(* run (analizar_archivos) of benchmark.py, and the column cycling of      *)
(* generator.py (crear_datos).                                             *)
(*                                                                         *)
(* Numbers that Python computes as floats (means, medians) are exact       *)
(* rationals <<numerator, denominator>> in lowest terms.                   *)
(***************************************************************************)
EXTENDS Integers, Sequences, FiniteSets, TLC

VARIABLES
    pc,            \* position of the running function
    \* --- media_acotada called on its own
    datos,         \* the samples passed in
    proporcion,    \* proporcion_a_quitar as <<numerator, denominator>>
    resultado,     \* what media_acotada returned (<<>> before the call)
    \* --- crear_datos
    filas, columnas, tipos,   \* the arguments
    gi,            \* loop index i of crear_datos
    data,          \* the dict under construction, in insertion order
    \* --- the environment of a benchmark run
    dataDir,       \* DATASETS_DIR.glob('*.xlsx'): sequence of [stem, size]
    fallos,        \* the operations that raise, when the environment is not libre
    libre,         \* TRUE: any write or read may raise
    ruido,         \* measured times (ms) and written sizes vary over 1..ruido
    \* --- the file system
    tempExists,    \* whether TEMP_DIR exists
    tempFiles,     \* the files in TEMP_DIR: name -> size in bytes
    report,        \* ANALYSIS_FILE on disk: [hojas, raw]
    \* --- analizar_archivos
    archivos, ai, li, fi, resultados,
    writer,        \* sheets added to the open pd.ExcelWriter
    \* --- the frame of medir_tiempos
    lib_name, fmt_name, ruta, total_bucles,
    it,            \* loop index i of medir_tiempos
    tiempos, size_kb,
    \* --- history
    traza          \* the write and read calls made so far, in order

statVars == <<datos, proporcion, resultado>>
genVars  == <<filas, columnas, tipos, gi, data>>
envVars  == <<dataDir, fallos, libre, ruido>>
fsVars   == <<tempExists, tempFiles, report>>
runVars  == <<archivos, ai, li, fi, resultados, writer>>
argVars  == <<lib_name, fmt_name, ruta, total_bucles>>
mtVars   == <<it, tiempos, size_kb>>
vars == <<pc, statVars, genVars, envVars, fsVars, runVars, argVars, mtVars,
          traza>>

-----------------------------------------------------------------------------
(* Bounds of the model *)

MaxLen == 4        \* longest sample list enumerated for media_acotada
MaxVal == 3        \* samples range over 0..MaxVal
MaxCols == 15      \* crear_datos is called with 0..MaxCols columns
MaxTam == 2        \* dataset files have a size in 1..MaxTam
MaxBucles == 2     \* medir_tiempos on its own runs 0..MaxBucles repetitions
MaxRuido == 2      \* ruido of medir_tiempos on its own

-----------------------------------------------------------------------------
(* The parts of the state a function called on its own does not touch *)

StatIdle == datos = <<>> /\ proporcion = <<1, 10>> /\ resultado = <<>>

GenIdle == filas = 0 /\ columnas = 0 /\ tipos = <<>> /\ gi = 0 /\ data = <<>>

FrameIdle ==
    /\ lib_name = "" /\ fmt_name = "" /\ ruta = <<>> /\ total_bucles = 0
    /\ it = 0 /\ tiempos = <<>> /\ size_kb = <<0, 1>>

RunIdle ==
    /\ dataDir = <<>> /\ fallos = {} /\ libre = FALSE /\ ruido = 1
    /\ tempExists = FALSE /\ tempFiles = <<>>
    /\ report = [hojas |-> <<>>, raw |-> <<>>]
    /\ archivos = <<>> /\ ai = 0 /\ li = 0 /\ fi = 0 /\ resultados = <<>>
    /\ writer = <<>>
    /\ traza = <<>>

-----------------------------------------------------------------------------
(* Arithmetic helpers *)

RECURSIVE GCD(_, _)
GCD(a, b) == IF b = 0 THEN a ELSE GCD(b, a % b)

\* n / d as a Python float would hold it, kept exact: lowest terms, d > 0
Frac(n, d) == LET g == GCD(n, d) IN <<n \div g, d \div g>>

RECURSIVE sum(_)
sum(s) == IF s = <<>> THEN 0 ELSE Head(s) + sum(Tail(s))

RECURSIVE Insert(_, _)
Insert(x, s) ==
    IF s = <<>> THEN <<x>>
    ELSE IF x < Head(s) THEN <<x>> \o s
    ELSE <<Head(s)>> \o Insert(x, Tail(s))

\* sorted(datos): ascending
RECURSIVE sorted(_)
sorted(s) == IF s = <<>> THEN <<>> ELSE Insert(Head(s), sorted(Tail(s)))

\* Python's s[lo:hi] for lo >= 0: a negative hi counts from the end, and
\* hi = -0 is 0
PySlice(s, lo, hi) ==
    LET n    == Len(s)
        stop == IF hi < 0 THEN (IF n + hi < 0 THEN 0 ELSE n + hi)
                ELSE (IF hi > n THEN n ELSE hi)
    IN  IF lo >= stop THEN <<>> ELSE SubSeq(s, lo + 1, stop)

\* statistics.median of a non-empty list
median(s) ==
    LET o == sorted(s)
        n == Len(o)
    IN  IF n % 2 = 1 THEN Frac(o[(n \div 2) + 1], 1)
        ELSE Frac(o[n \div 2] + o[(n \div 2) + 1], 2)

\* statistics.mean of a non-empty list
mean(s) == Frac(sum(s), Len(s))

-----------------------------------------------------------------------------
(* media_acotada, benchmark.py 57-63 *)

\* int(n * proporcion_a_quitar) for a proportion num/den
quitar(n, p) == (n * p[1]) \div p[2]

\* A variant that slices with an explicit end index n - quitar
media_acotada_FinExplicito(d, p) ==
    IF d = <<>> THEN <<0, 1>>
    ELSE LET n == Len(d)
             q == quitar(n, p)
         IN  IF q * 2 >= n THEN median(d)
             ELSE LET a == PySlice(sorted(d), q, n - q + 1)
                  IN  IF a # <<>> THEN Frac(sum(a), Len(a)) ELSE median(d)

media_acotada(d, p) ==
    IF d = <<>> THEN <<0, 1>>
    ELSE LET n == Len(d)
             q == quitar(n, p)
         IN  IF q * 2 >= n THEN median(d)
             ELSE LET datos_acotados == PySlice(sorted(d), q, 0 - q)
                  IN  IF datos_acotados # <<>>
                      THEN Frac(sum(datos_acotados), Len(datos_acotados))
                      ELSE median(d)

-----------------------------------------------------------------------------
(* media_acotada called on its own: the inputs are drawn in MediaInit *)

Proporciones == {<<1, 10>>, <<1, 4>>, <<2, 5>>, <<1, 2>>}   \* 0.1 0.25 0.4 0.5

RECURSIVE SeqsUpTo(_, _)
SeqsUpTo(S, n) ==
    IF n = 0 THEN {<<>>}
    ELSE LET r == SeqsUpTo(S, n - 1)
         IN  r \cup {Append(s, x) : s \in {t \in r : Len(t) = n - 1}, x \in S}

Muestras ==
    SeqsUpTo(0..MaxVal, MaxLen)
    \cup {<<1, 2, 3, 4, 100>>,
          <<1, 2, 3, 4, 5, 6, 7, 8, 9, 100>>,
          <<100, 9, 1, 8, 2, 7, 3, 6, 4, 5>>}

MediaInit ==
    /\ pc = "media_acotada"
    /\ datos \in Muestras
    /\ proporcion \in Proporciones
    /\ resultado = <<>>
    /\ GenIdle /\ RunIdle /\ FrameIdle

MediaCall ==
    /\ pc = "media_acotada"
    /\ resultado' = media_acotada(datos, proporcion)
    /\ pc' = "media_done"
    /\ UNCHANGED <<datos, proporcion, genVars, envVars, fsVars, runVars,
                   argVars, mtVars, traza>>

MediaNext == MediaCall

MediaSpec == MediaInit /\ [][MediaNext]_vars

-----------------------------------------------------------------------------
(* Claims about media_acotada *)

\* The k-th smallest sample (k in 1..Len(d)), by counting
OrderStat(d, k) ==
    CHOOSE x \in {d[j] : j \in 1..Len(d)} :
        /\ Cardinality({j \in 1..Len(d) : d[j] < x}) < k
        /\ k <= Cardinality({j \in 1..Len(d) : d[j] <= x})

RECURSIVE SumOrderStats(_, _, _)
SumOrderStats(d, lo, hi) ==
    IF lo > hi THEN 0 ELSE OrderStat(d, lo) + SumOrderStats(d, lo + 1, hi)

\* The median of a non-empty list, from the order statistics
MedianOf(d) ==
    LET n == Len(d)
    IN  IF n % 2 = 1 THEN Frac(OrderStat(d, (n + 1) \div 2), 1)
        ELSE Frac(OrderStat(d, n \div 2) + OrderStat(d, (n \div 2) + 1), 2)

TrimCount == quitar(Len(datos), proporcion)

\* C1 (as stated): whenever the list is non-empty and trim_count is 0,
\* media_acotada returns the arithmetic mean of all n samples.
C1_MeanWhenNothingTrimmed ==
    (pc = "media_done" /\ datos # <<>> /\ TrimCount = 0)
        => resultado = Frac(SumOrderStats(datos, 1, Len(datos)), Len(datos))

\* C2: with trim_count >= 1 and trim_count * 2 < n the result is the mean of
\* the samples left after removing the trim_count lowest and the trim_count
\* highest, whatever the input order; with trim_count * 2 >= n it is the
\* median; for the empty list it is 0.
C2_TrimmedMean ==
    pc = "media_done" =>
        LET n == Len(datos)
            q == TrimCount
        IN  /\ n = 0 => resultado = <<0, 1>>
            /\ (n > 0 /\ q * 2 >= n) => resultado = MedianOf(datos)
            /\ (q >= 1 /\ q * 2 < n) =>
                   resultado = Frac(SumOrderStats(datos, q + 1, n - q), n - 2 * q)

\* The spec's example: [1..9, 100] in a shuffled order, fraction 0.1, gives 5.5
C2_Witness ==
    /\ pc = "media_done"
    /\ datos = <<100, 9, 1, 8, 2, 7, 3, 6, 4, 5>>
    /\ proporcion = <<1, 10>>
    /\ TrimCount = 1
    /\ resultado = <<11, 2>>

-----------------------------------------------------------------------------
(* crear_datos, generator.py 11-32 *)

\* list(TIPOS.keys()), in declaration order
tipos_disponibles ==
    <<"num", "int", "text", "long_text", "date", "time", "bool", "category",
      "null", "location", "percentage">>

\* TIPOS[key][0], the label stem (accents dropped)
TIPOS ==
    [k \in {tipos_disponibles[j] : j \in 1..Len(tipos_disponibles)} |->
        CASE k = "num"        -> "Precio"
          [] k = "int"        -> "Cantidad"
          [] k = "text"       -> "Descripcion"
          [] k = "long_text"  -> "Notas"
          [] k = "date"       -> "Fecha"
          [] k = "time"       -> "Hora"
          [] k = "bool"       -> "Disponible"
          [] k = "category"   -> "Categoria"
          [] k = "null"       -> "Sin_datos"
          [] k = "location"   -> "Ubicacion"
          [] k = "percentage" -> "Porcentaje"]

\* d[k] = v on a dict kept as a sequence of <<key, value>> in insertion
\* order: an existing key keeps its place and takes the new value
DictSet(d, k, v) ==
    IF \E j \in 1..Len(d) : d[j][1] = k
    THEN [j \in 1..Len(d) |-> IF d[j][1] = k THEN <<k, v>> ELSE d[j]]
    ELSE Append(d, <<k, v>>)

\* A variant that numbers the columns from 0
nombre_columna_DesdeCero(nombre_base, i) == nombre_base \o "_" \o ToString(i)

\* f"{nombre_base}_{i+1}"
nombre_columna(nombre_base, i) == nombre_base \o "_" \o ToString(i + 1)

\* tipos[i % len(tipos)]
tipo_key(t, i) == t[(i % Len(t)) + 1]

\* The catalogs crear_datos is called with: every non-empty prefix of the
\* full catalog, and two catalogs that name a type twice
Catalogos ==
    {SubSeq(tipos_disponibles, 1, k) : k \in 1..Len(tipos_disponibles)}
    \cup {<<"num", "num">>, <<"int", "num", "int">>}

GenInit ==
    /\ pc = "crear_datos"
    /\ filas \in {1, 3}
    /\ columnas \in 0..MaxCols
    /\ tipos \in Catalogos
    /\ gi = 0
    /\ data = <<>>
    /\ StatIdle /\ RunIdle /\ FrameIdle

\* One pass of the loop body, lines 29-31; the column generated by
\* func_gen(filas) is recorded by its type key and row count
crear_datos_columna ==
    /\ pc = "crear_datos"
    /\ gi < columnas
    /\ LET key == tipo_key(tipos, gi)
       IN  data' = DictSet(data, nombre_columna(TIPOS[key], gi),
                            [tipo |-> key, filas |-> filas])
    /\ gi' = gi + 1
    /\ UNCHANGED <<pc, filas, columnas, tipos, statVars, envVars, fsVars,
                   runVars, argVars, mtVars, traza>>

\* range(columnas) is exhausted: return pd.DataFrame(data)
crear_datos_return ==
    /\ pc = "crear_datos"
    /\ gi >= columnas
    /\ pc' = "crear_datos_done"
    /\ UNCHANGED <<genVars, statVars, envVars, fsVars, runVars, argVars,
                   mtVars, traza>>

GenNext == crear_datos_columna \/ crear_datos_return

GenSpec == GenInit /\ [][GenNext]_vars

\* C8: crear_datos produces exactly `columnas` columns; column i (0-indexed)
\* is generated by catalog entry i mod len(catalog) and is named
\* <label of that entry>_<i+1>; all column names of a table are distinct.
C8_ColumnCycling ==
    pc = "crear_datos_done" =>
        /\ Len(data) = columnas
        /\ \A i \in 0..(columnas - 1) :
              LET key == tipos[(i % Len(tipos)) + 1]
              IN  /\ data[i + 1][2].tipo = key
                  /\ data[i + 1][1] = TIPOS[key] \o "_" \o ToString(i + 1)
        /\ \A i, j \in 1..Len(data) : data[i][1] = data[j][1] => i = j

\* 15 columns against the 11-entry catalog: index 11 reuses entry 0 ("num",
\* Precio) and index 12 reuses entry 1 ("int", Cantidad)
C8_Witness ==
    /\ pc = "crear_datos_done"
    /\ columnas = 15
    /\ tipos = tipos_disponibles
    /\ data[12] = <<"Precio_12", [tipo |-> "num", filas |-> filas]>>
    /\ data[13] = <<"Cantidad_13", [tipo |-> "int", filas |-> filas]>>

-----------------------------------------------------------------------------
(* Configuration of the benchmark, benchmark.py 16-55 *)

BUCLES == 5

\* The compatibility matrix, libraries and formats in declaration order
FORMATOS ==
    << [lib |-> "pandas",
        fmts |-> <<"csv", "excel", "parquet", "feather", "json">>],
       [lib |-> "polars",
        fmts |-> <<"csv", "excel", "parquet", "feather", "json">>],
       [lib |-> "duckdb",  fmts |-> <<"csv", "parquet", "json">>],
       [lib |-> "pyarrow", fmts |-> <<"csv", "parquet", "feather">>] >>

\* The declared (library, format) pairs
Pares ==
    UNION {{<<FORMATOS[l].lib, FORMATOS[l].fmts[f]>> :
                f \in 1..Len(FORMATOS[l].fmts)} : l \in 1..Len(FORMATOS)}

\* str.upper() on the library and format names
upper(x) ==
    CASE x = "pandas"  -> "PANDAS"
      [] x = "polars"  -> "POLARS"
      [] x = "duckdb"  -> "DUCKDB"
      [] x = "pyarrow" -> "PYARROW"
      [] x = "csv"     -> "CSV"
      [] x = "excel"   -> "EXCEL"
      [] x = "parquet" -> "PARQUET"
      [] x = "feather" -> "FEATHER"
      [] x = "json"    -> "JSON"

\* {'excel': 'xlsx', 'feather': 'arrow'}.get(fmt_name, fmt_name)
ext(f) ==
    CASE f = "excel"   -> "xlsx"
      [] f = "feather" -> "arrow"
      [] OTHER         -> f

\* metric_func = media_acotada if BUCLES >= 5 else statistics.mean
metric_func(serie) ==
    IF BUCLES >= 5 THEN media_acotada(serie, <<1, 10>>) ELSE mean(serie)

-----------------------------------------------------------------------------
(* medir_tiempos, benchmark.py 65-95 *)

\* A variant that names the file of an iteration without the library
ruta_iter_SinLibreria(r, lib, i) ==
    r[1] \o "_" \o ToString(i) \o "." \o r[2]

\* ruta.with_stem(f"{ruta.stem}_{lib_name}_{i}"), the name inside TEMP_DIR;
\* ruta is <<stem, extension>>
ruta_iter(r, lib, i) ==
    r[1] \o "_" \o lib \o "_" \o ToString(i) \o "." \o r[2]

\* A variant that measures the size in every iteration
captura_size_Siempre(i) == TRUE

\* if i == 0: size_kb = ...
captura_size(i) == i = 0

\* The call the loop is about to make
Op(kind) ==
    [stem |-> ruta[1], lib |-> lib_name, fmt |-> fmt_name, i |-> it,
     kind |-> kind]

Coincide(p, op) ==
    /\ p.stem \in {"*", op.stem}
    /\ p.lib \in {"*", op.lib}
    /\ p.fmt \in {"*", op.fmt}
    /\ p.kind = op.kind
    /\ op.i >= p.desde

\* Whether fmt['write'] / fmt['read'] raises: the library decides. A write
\* into a missing TEMP_DIR raises; a write that raises leaves no file.
Raises(kind) ==
    IF kind = "write" /\ ~tempExists THEN {TRUE}
    ELSE IF libre THEN BOOLEAN
    ELSE {\E p \in fallos : Coincide(p, Op(kind))}

Hecho(kind, ok, ms) ==
    [stem |-> ruta[1], lib |-> lib_name, fmt |-> fmt_name, i |-> it,
     kind |-> kind, ok |-> ok, ms |-> ms]

FileWrite(files, name, bytes) ==
    [n \in (DOMAIN files) \cup {name} |->
        IF n = name THEN bytes ELSE files[n]]

\* lines 77-81: the write succeeds
mt_write_ok ==
    /\ pc = "mt_write"
    /\ it < total_bucles
    /\ FALSE \in Raises("write")
    /\ \E ms \in 1..ruido, kb2 \in 1..ruido :
          /\ tempFiles' = FileWrite(tempFiles, ruta_iter(ruta, lib_name, it),
                                    512 * kb2)
          /\ tiempos' = [tiempos EXCEPT !.escritura = Append(@, ms)]
          /\ size_kb' = IF captura_size(it) THEN Frac(512 * kb2, 1024)
                        ELSE size_kb
          /\ traza' = Append(traza, Hecho("write", TRUE, ms))
    /\ pc' = "mt_read"
    /\ UNCHANGED <<it, statVars, genVars, envVars, tempExists, report,
                   runVars, argVars>>

\* lines 78, 88-90: the write raises
mt_write_raise ==
    /\ pc = "mt_write"
    /\ it < total_bucles
    /\ TRUE \in Raises("write")
    /\ tiempos' = [escritura |-> Append(tiempos.escritura, 0),
                   lectura   |-> Append(tiempos.lectura, 0)]
    /\ traza' = Append(traza, Hecho("write", FALSE, 0))
    /\ it' = it + 1
    /\ UNCHANGED <<pc, size_kb, statVars, genVars, envVars, fsVars, runVars,
                   argVars>>

\* lines 83-87: the read succeeds
mt_read_ok ==
    /\ pc = "mt_read"
    /\ FALSE \in Raises("read")
    /\ \E ms \in 1..ruido :
          /\ tiempos' = [tiempos EXCEPT !.lectura = Append(@, ms)]
          /\ traza' = Append(traza, Hecho("read", TRUE, ms))
    /\ it' = it + 1
    /\ pc' = "mt_write"
    /\ UNCHANGED <<size_kb, statVars, genVars, envVars, fsVars, runVars,
                   argVars>>

\* lines 84, 88-90: the read raises, after the write time was appended
mt_read_raise ==
    /\ pc = "mt_read"
    /\ TRUE \in Raises("read")
    /\ tiempos' = [escritura |-> Append(tiempos.escritura, 0),
                   lectura   |-> Append(tiempos.lectura, 0)]
    /\ traza' = Append(traza, Hecho("read", FALSE, 0))
    /\ it' = it + 1
    /\ pc' = "mt_write"
    /\ UNCHANGED <<size_kb, statVars, genVars, envVars, fsVars, runVars,
                   argVars>>

\* lines 92-95: range(total_bucles) is exhausted
mt_return ==
    /\ pc = "mt_write"
    /\ it >= total_bucles
    /\ pc' = "mt_returned"
    /\ UNCHANGED <<statVars, genVars, envVars, fsVars, runVars, argVars,
                   mtVars, traza>>

medir_tiempos ==
    \/ mt_write_ok
    \/ mt_write_raise
    \/ mt_read_ok
    \/ mt_read_raise
    \/ mt_return

\* medir_tiempos called on its own, for any declared pair and any
\* repetition count, in an environment where every call may raise
MedirInit ==
    /\ pc = "mt_write"
    /\ \E par \in Pares :
          /\ lib_name = par[1]
          /\ fmt_name = par[2]
          /\ ruta = <<"mediano", ext(par[2])>>
    /\ total_bucles \in 0..MaxBucles
    /\ it = 0
    /\ tiempos = [escritura |-> <<>>, lectura |-> <<>>]
    /\ size_kb = <<0, 1>>
    /\ dataDir = <<>> /\ fallos = {} /\ libre = TRUE /\ ruido = MaxRuido
    /\ tempExists = TRUE /\ tempFiles = <<>>
    /\ report = [hojas |-> <<>>, raw |-> <<>>]
    /\ archivos = <<>> /\ ai = 0 /\ li = 0 /\ fi = 0 /\ resultados = <<>>
    /\ writer = <<>>
    /\ traza = <<>>
    /\ StatIdle /\ GenIdle

MedirNext == medir_tiempos

MedirSpec == MedirInit /\ [][MedirNext]_vars

-----------------------------------------------------------------------------
(* Claims about medir_tiempos called on its own *)

\* The calls of the current medir_tiempos frame recorded in the trace
Llamadas(kind, i) ==
    {j \in 1..Len(traza) :
        /\ traza[j].kind = kind /\ traza[j].i = i
        /\ traza[j].stem = ruta[1] /\ traza[j].lib = lib_name
        /\ traza[j].fmt = fmt_name}

Fallida(i) ==
    \E k \in {"write", "read"} : \E j \in Llamadas(k, i) : ~traza[j].ok

\* C3 (as stated): the write series and the read series both have length
\* total_bucles; a failed iteration holds 0 in both, a successful one its
\* measured times.
C3_SeriesLength ==
    pc = "mt_returned" =>
        /\ Len(tiempos.escritura) = total_bucles
        /\ Len(tiempos.lectura) = total_bucles
        /\ \A i \in 0..(total_bucles - 1) :
              IF Fallida(i)
              THEN tiempos.escritura[i + 1] = 0 /\ tiempos.lectura[i + 1] = 0
              ELSE /\ \E j \in Llamadas("write", i) :
                         tiempos.escritura[i + 1] = traza[j].ms
                   /\ \E j \in Llamadas("read", i) :
                         tiempos.lectura[i + 1] = traza[j].ms

\* C5: once iteration 0 is past its write, and until the function has
\* returned, size_kb is the size in KB of the iteration-0 file if that write
\* succeeded and 0 if it raised, whatever the later iterations do.
C5_SizeFromFirstIteration ==
    (pc \in {"mt_write", "mt_read", "mt_returned"}) =>
        LET f0 == ruta_iter(ruta, lib_name, 0)
            ok0 == \E j \in Llamadas("write", 0) : traza[j].ok
        IN  /\ ok0 => (f0 \in DOMAIN tempFiles
                        /\ size_kb = Frac(tempFiles[f0], 1024))
            /\ ~ok0 => size_kb = <<0, 1>>

\* Two iterations whose files differ in size: the size of the first is kept
C5_Witness ==
    /\ pc = "mt_returned"
    /\ total_bucles = 2
    /\ lib_name = "polars" /\ fmt_name = "excel"
    /\ "mediano_polars_0.xlsx" \in DOMAIN tempFiles
    /\ "mediano_polars_1.xlsx" \in DOMAIN tempFiles
    /\ tempFiles["mediano_polars_0.xlsx"] = 512
    /\ tempFiles["mediano_polars_1.xlsx"] = 1024
    /\ size_kb = <<1, 2>>

-----------------------------------------------------------------------------
(* analizar_archivos, benchmark.py 174-231 *)

Sheets == <<"Resumen_Comparativo", "RAW_Data">>

\* A variant that keeps the order in which glob returned the files
ordenar_por_tamano_SinOrdenar(s) == s

RECURSIVE InsertarPorTamano(_, _)
InsertarPorTamano(x, s) ==
    IF s = <<>> THEN <<x>>
    ELSE IF x.size <= Head(s).size THEN <<x>> \o s
    ELSE <<Head(s)>> \o InsertarPorTamano(x, Tail(s))

RECURSIVE OrdenarDesde(_)
OrdenarDesde(s) ==
    IF s = <<>> THEN <<>>
    ELSE InsertarPorTamano(Head(s), OrdenarDesde(Tail(s)))

\* sorted(list(...), key=lambda p: p.stat().st_size): ascending and stable
ordenar_por_tamano(s) == OrdenarDesde(s)

\* line 176
archivos_encontrados == ordenar_por_tamano(dataDir)

\* A variant that prepares TEMP_DIR before looking for the datasets
aa_sin_archivos_PurgaAntes ==
    /\ pc = "analizar_archivos"
    /\ archivos_encontrados = <<>>
    /\ archivos' = archivos_encontrados
    /\ tempFiles' = <<>>
    /\ tempExists' = TRUE
    /\ pc' = "done"
    /\ UNCHANGED <<ai, li, fi, resultados, writer, statVars, genVars,
                   envVars, report, argVars, mtVars, traza>>

\* lines 176-179: nothing found, warn and return
aa_sin_archivos ==
    /\ pc = "analizar_archivos"
    /\ archivos_encontrados = <<>>
    /\ archivos' = archivos_encontrados
    /\ pc' = "done"
    /\ UNCHANGED <<ai, li, fi, resultados, writer, statVars, genVars,
                   envVars, fsVars, argVars, mtVars, traza>>

\* lines 176-177: the datasets, smallest first
aa_glob ==
    /\ pc = "analizar_archivos"
    /\ archivos_encontrados # <<>>
    /\ archivos' = archivos_encontrados
    /\ pc' = "aa_prepare"
    /\ UNCHANGED <<ai, li, fi, resultados, writer, statVars, genVars,
                   envVars, fsVars, argVars, mtVars, traza>>

\* lines 181-185: rmtree(TEMP_DIR), mkdir, resultados = []
aa_prepare ==
    /\ pc = "aa_prepare"
    /\ tempFiles' = <<>>
    /\ tempExists' = TRUE
    /\ resultados' = <<>>
    /\ ai' = 1
    /\ pc' = "aa_dataset"
    /\ UNCHANGED <<archivos, li, fi, writer, statVars, genVars, envVars,
                   report, argVars, mtVars, traza>>

\* lines 187-198: the next dataset is loaded
aa_dataset ==
    /\ pc = "aa_dataset"
    /\ ai <= Len(archivos)
    /\ li' = 1
    /\ fi' = 1
    /\ pc' = "aa_call"
    /\ UNCHANGED <<archivos, ai, resultados, writer, statVars, genVars,
                   envVars, fsVars, argVars, mtVars, traza>>

\* lines 200-206 and 66-68: medir_tiempos is called for the pair (li, fi)
aa_call ==
    /\ pc = "aa_call"
    /\ lib_name' = FORMATOS[li].lib
    /\ fmt_name' = FORMATOS[li].fmts[fi]
    /\ ruta' = <<archivos[ai].stem, ext(FORMATOS[li].fmts[fi])>>
    /\ total_bucles' = BUCLES
    /\ it' = 0
    /\ tiempos' = [escritura |-> <<>>, lectura |-> <<>>]
    /\ size_kb' = <<0, 1>>
    /\ pc' = "mt_write"
    /\ UNCHANGED <<runVars, statVars, genVars, envVars, fsVars, traza>>

\* The row of lines 208-215
fila ==
    [Libreria     |-> upper(lib_name),
     Archivo      |-> archivos[ai].stem,
     Formato      |-> upper(fmt_name),
     Tamano_KB    |-> size_kb,
     Lectura_ms   |-> metric_func(tiempos.lectura),
     Escritura_ms |-> metric_func(tiempos.escritura)]

\* A variant that leaves out the row of a pair whose series hold a 0
filas_nuevas_OmiteCeros ==
    IF \E j \in 1..Len(tiempos.lectura) : tiempos.lectura[j] = 0
    THEN <<>> ELSE <<fila>>

\* resultados.append({...})
filas_nuevas == <<fila>>

\* lines 206-215: medir_tiempos has returned, the row is appended, and the
\* loops of lines 200 and 202 move to the next pair or leave the dataset
aa_append ==
    /\ pc = "mt_returned"
    /\ resultados' = resultados \o filas_nuevas
    /\ IF fi < Len(FORMATOS[li].fmts)
       THEN fi' = fi + 1 /\ pc' = "aa_call" /\ UNCHANGED <<ai, li>>
       ELSE IF li < Len(FORMATOS)
       THEN li' = li + 1 /\ fi' = 1 /\ pc' = "aa_call" /\ UNCHANGED ai
       ELSE ai' = ai + 1 /\ pc' = "aa_dataset" /\ UNCHANGED <<li, fi>>
    /\ UNCHANGED <<archivos, writer, statVars, genVars, envVars, fsVars,
                   argVars, mtVars, traza>>

\* lines 217-226: the loop over archivos is exhausted, the writer is opened
aa_pivot ==
    /\ pc = "aa_dataset"
    /\ ai > Len(archivos)
    /\ writer' = <<>>
    /\ pc' = "aa_resumen"
    /\ UNCHANGED <<archivos, ai, li, fi, resultados, statVars, genVars,
                   envVars, fsVars, argVars, mtVars, traza>>

\* line 227: _formatear_resumen adds the summary sheet to the writer
aa_resumen ==
    /\ pc = "aa_resumen"
    /\ writer' = Append(writer, Sheets[1])
    /\ pc' = "aa_raw"
    /\ UNCHANGED <<archivos, ai, li, fi, resultados, statVars, genVars,
                   envVars, fsVars, argVars, mtVars, traza>>

\* line 228 and the end of the with block: the raw sheet is added and the
\* workbook is saved
aa_raw ==
    /\ pc = "aa_raw"
    /\ writer' = Append(writer, Sheets[2])
    /\ report' = [hojas |-> writer', raw |-> resultados]
    /\ pc' = "aa_cleanup"
    /\ UNCHANGED <<archivos, ai, li, fi, resultados, statVars, genVars,
                   envVars, tempExists, tempFiles, argVars, mtVars, traza>>

\* lines 230-231: rmtree(TEMP_DIR)
aa_cleanup ==
    /\ pc = "aa_cleanup"
    /\ tempFiles' = <<>>
    /\ tempExists' = FALSE
    /\ pc' = "done"
    /\ UNCHANGED <<runVars, statVars, genVars, envVars, report, argVars,
                   mtVars, traza>>

analizar_archivos ==
    \/ aa_sin_archivos
    \/ aa_glob
    \/ aa_prepare
    \/ aa_dataset
    \/ aa_call
    \/ medir_tiempos
    \/ aa_append
    \/ aa_pivot
    \/ aa_resumen
    \/ aa_raw
    \/ aa_cleanup

-----------------------------------------------------------------------------
(* The environment of a benchmark run *)

Stems == <<"grande", "mediano">>    \* the order in which glob returns them

\* The dataset directory holds the first k of the files, of any sizes
DataDirs ==
    UNION {{[j \in 1..k |-> [stem |-> Stems[j], size |-> sz[j]]] :
                sz \in [1..k -> 1..MaxTam]} : k \in 0..Len(Stems)}

\* The pairs a failure is aimed at: one pair, one format in every library
\* that declares it, or every pair
Blancos == {<<"polars", "excel">>, <<"*", "parquet">>, <<"*", "*">>}

\* What can raise in a run: every write (or every read) of the pairs aimed
\* at, on the first dataset glob returns or on all, from one iteration on
Patrones ==
    {[stem |-> st, lib |-> par[1], fmt |-> par[2], desde |-> d, kind |-> k] :
        st \in {"*", Stems[1]},
        par \in Blancos,
        d \in 0..(BUCLES - 1),
        k \in {"write", "read"}}

\* What a previous run may have left behind
InformeAnterior == [hojas |-> Sheets, raw |-> <<"anterior">>]

\* A run starts on a clean disk with healthy libraries, or on the leftovers
\* of a previous run with at most one failure pattern
Init ==
    /\ pc = "analizar_archivos"
    /\ dataDir \in DataDirs
    /\ libre = FALSE
    /\ ruido = 1
    /\ \/ /\ tempExists = FALSE
          /\ tempFiles = <<>>
          /\ report = [hojas |-> <<>>, raw |-> <<>>]
          /\ fallos = {}
       \/ /\ tempExists = TRUE
          /\ tempFiles = ("grande_pandas_0.csv" :> 2048 @@ "viejo.tmp" :> 1)
          /\ report = InformeAnterior
          /\ fallos \in {{}} \cup {{p} : p \in Patrones}
    /\ archivos = <<>> /\ ai = 0 /\ li = 0 /\ fi = 0 /\ resultados = <<>>
    /\ writer = <<>>
    /\ traza = <<>>
    /\ FrameIdle /\ StatIdle /\ GenIdle

Next == analizar_archivos

Spec == Init /\ [][Next]_vars

-----------------------------------------------------------------------------
(* Claims about a benchmark run *)

HuboFallo == \E j \in 1..Len(traza) : ~traza[j].ok

EscriturasOk == {j \in 1..Len(traza) : traza[j].kind = "write" /\ traza[j].ok}

\* C4: whatever raises during measurement, a run that found datasets ends
\* having made every write call of every dataset, pair and iteration, with
\* exactly one result row per dataset and declared pair.
C4_FailureContainment ==
    (pc = "done" /\ dataDir # <<>>) =>
          /\ Len(resultados) = Len(dataDir) * Cardinality(Pares)
          /\ \A d \in 1..Len(dataDir) : \A par \in Pares :
                /\ Cardinality({j \in 1..Len(resultados) :
                        /\ resultados[j].Archivo = dataDir[d].stem
                        /\ resultados[j].Libreria = upper(par[1])
                        /\ resultados[j].Formato = upper(par[2])}) = 1
                /\ \A i \in 0..(BUCLES - 1) :
                      \E j \in 1..Len(traza) :
                          /\ traza[j].stem = dataDir[d].stem
                          /\ traza[j].lib = par[1]
                          /\ traza[j].fmt = par[2]
                          /\ traza[j].i = i
                          /\ traza[j].kind = "write"

\* Every parquet write raises on both datasets, and all 32 rows are there
C4_Witness ==
    /\ pc = "done"
    /\ Len(dataDir) = 2
    /\ fallos = {[stem |-> "*", lib |-> "*", fmt |-> "parquet", desde |-> 0,
                  kind |-> "write"]}
    /\ HuboFallo
    /\ Len(resultados) = 32


\* Where a call stands in the order of the run: dataset by its place in
\* archivos, library and format by their place in FORMATOS, iteration,
\* write before read
Clave(e) ==
    LET a == CHOOSE j \in 1..Len(archivos) : archivos[j].stem = e.stem
        l == CHOOSE j \in 1..Len(FORMATOS) : FORMATOS[j].lib = e.lib
        f == CHOOSE j \in 1..Len(FORMATOS[l].fmts) : FORMATOS[l].fmts[j] = e.fmt
    IN  <<a, l, f, e.i, IF e.kind = "write" THEN 0 ELSE 1>>

RECURSIVE LexMenor(_, _)
LexMenor(x, y) ==
    /\ x # <<>>
    /\ \/ Head(x) < Head(y)
       \/ Head(x) = Head(y) /\ LexMenor(Tail(x), Tail(y))

\* C6: archivos holds the datasets found, in ascending size; each call made
\* comes later in the order (dataset, library, format, iteration, write
\* before read) than the call before it, every prefix of a trace being the
\* trace of an earlier state; a read follows the successful write of its
\* own iteration; and a run past its loops has made the write call of every
\* iteration of every pair and dataset, and the read call of exactly those
\* whose write succeeded.
C6_ProcessingOrder ==
    /\ pc # "analizar_archivos" =>
          /\ Len(archivos) = Len(dataDir)
          /\ {archivos[j] : j \in 1..Len(archivos)}
                = {dataDir[j] : j \in 1..Len(dataDir)}
          /\ \A j \in 1..(Len(archivos) - 1) :
                archivos[j].size <= archivos[j + 1].size
    /\ LET n == Len(traza)
       IN  /\ n >= 2 => LexMenor(Clave(traza[n - 1]), Clave(traza[n]))
           /\ (n >= 1 /\ traza[n].kind = "read") =>
                 /\ n >= 2
                 /\ traza[n - 1] = [traza[n] EXCEPT !.kind = "write",
                                        !.ok = TRUE, !.ms = traza[n - 1].ms]
    /\ (pc = "aa_resumen") =>
          \A d \in 1..Len(dataDir) : \A par \in Pares :
              \A i \in 0..(BUCLES - 1) :
                 LET w == {j \in 1..Len(traza) :
                             /\ traza[j].stem = dataDir[d].stem
                             /\ traza[j].lib = par[1]
                             /\ traza[j].fmt = par[2]
                             /\ traza[j].i = i}
                 IN  /\ \E j \in w : traza[j].kind = "write"
                     /\ (\E j \in w : traza[j].kind = "read")
                            <=> (\E j \in w : traza[j].kind = "write" /\ traza[j].ok)

\* glob returned the larger file first, the smaller one is measured first,
\* and reads raised on the way
C6_Witness ==
    /\ pc = "done"
    /\ Len(dataDir) = 2
    /\ dataDir[1].size > dataDir[2].size
    /\ traza[1].stem = dataDir[2].stem
    /\ traza[Len(traza)].stem = dataDir[1].stem
    /\ \E j \in 1..Len(traza) : traza[j].kind = "read" /\ ~traza[j].ok

\* The name of the file a recorded write call wrote
Escrito(e) == e.stem \o "_" \o e.lib \o "_" \o ToString(e.i) \o "." \o ext(e.fmt)

\* From the purge of TEMP_DIR until the report is on disk
Midiendo ==
    pc \in {"aa_dataset", "aa_call", "mt_write", "mt_read", "mt_returned",
            "aa_resumen", "aa_raw", "aa_cleanup"}

C7_Estado ==
    /\ Midiendo =>
          /\ tempExists
          /\ Cardinality(DOMAIN tempFiles) = Cardinality(EscriturasOk)
          /\ (traza # <<>> /\ traza[Len(traza)].kind = "write"
                /\ traza[Len(traza)].ok)
                => Escrito(traza[Len(traza)]) \in DOMAIN tempFiles
    /\ (pc \notin {"analizar_archivos", "aa_prepare"} /\ archivos # <<>>
            /\ ~tempExists) =>
          /\ pc = "done"
          /\ report = [hojas |-> Sheets, raw |-> resultados]
    /\ pc = "aa_cleanup" => report = [hojas |-> Sheets, raw |-> resultados]

C7_Paso ==
    (Midiendo /\ pc # "aa_cleanup") =>
        \A n \in DOMAIN tempFiles :
            n \in DOMAIN tempFiles' /\ tempFiles'[n] = tempFiles[n]

\* C7: from the purge of TEMP_DIR until the report is on disk, TEMP_DIR
\* exists and holds as many files as successful writes were made (nothing
\* older is left, each successful write adds a file of a new name), and no
\* step deletes or changes a file; TEMP_DIR is gone only in the final state,
\* with both sheets of the report written.
C7_TempFiles == [](C7_Estado) /\ [][C7_Paso]_vars

\* Two datasets, every polars/excel write raises: 150 files are there when
\* the report is written, and none of the previous run
C7_Witness ==
    /\ pc = "aa_cleanup"
    /\ Len(dataDir) = 2
    /\ HuboFallo
    /\ Cardinality(DOMAIN tempFiles) = 150
    /\ report.raw # InformeAnterior.raw

\* C9: with no dataset file, the step away from the start is the return:
\* TEMP_DIR, its files and the report file stay as they are and no call is
\* made.
C9_NoDatasetNoOp ==
    [][(pc = "analizar_archivos" /\ dataDir = <<>>) =>
          /\ pc' = "done"
          /\ UNCHANGED <<tempExists, tempFiles, report, resultados, traza>>]_vars

\* The leftovers of a previous run are still there after the return
C9_Witness ==
    /\ pc = "done"
    /\ dataDir = <<>>
    /\ "viejo.tmp" \in DOMAIN tempFiles
    /\ tempExists
    /\ report = InformeAnterior
    /\ traza = <<>>

\* The times of the iterations of a row's triple that did not fail
SerieSinFallos(r, kind) ==
    LET mias == {j \in 1..Len(traza) :
                    /\ traza[j].stem = r.Archivo
                    /\ upper(traza[j].lib) = r.Libreria
                    /\ upper(traza[j].fmt) = r.Formato}
        mal == {traza[j].i : j \in {k \in mias : ~traza[k].ok}}
        RECURSIVE Desde(_)
        Desde(j) ==
            IF j > Len(traza) THEN <<>>
            ELSE IF j \in mias /\ traza[j].kind = kind /\ traza[j].i \notin mal
                 THEN <<traza[j].ms>> \o Desde(j + 1)
                 ELSE Desde(j + 1)
    IN  [serie |-> Desde(1), fallidas |-> mal]

\* C10 (as stated): the row of a triple with a failed iteration either holds
\* the aggregates of the other iterations alone, or is flagged as degraded.
C10_SentinelNotAveraged ==
    \A j \in 1..Len(resultados) :
        LET r == resultados[j]
            w == SerieSinFallos(r, "write")
            l == SerieSinFallos(r, "read")
        IN  w.fallidas # {} =>
               \/ /\ r.Escritura_ms = metric_func(w.serie)
                  /\ r.Lectura_ms = metric_func(l.serie)
               \/ "Degradado" \in DOMAIN r

====
